---- MODULE Spec2Model ----
(***************************************************************************)
(* HelloTriangleApp (src/src/hello_triangle_app.h): the bootstrap of a     *)
(* Vulkan context (instance, messenger, surface, device selection, logical *)
(* device, swapchain, image views) and its teardown, as a state machine.   *)
(*                                                                         *)
(* The graphics runtime and the window system are the environment: what    *)
(* they report (devices, queue families, capabilities, extension lists,    *)
(* drawable size) is drawn in the initial state, and the result code of    *)
(* each call is drawn when the call is made.                               *)
(***************************************************************************)
EXTENDS Integers, Sequences, FiniteSets, TLC

VARIABLES
  pc,                         \* the statement of run() that executes next
  abort_stage,                \* the stage whose failed check ended the process
  cleanup_pc,                 \* index of the next statement of cleanup()
  enable_validation_layers_,  \* build flag (DEBUG)
  APPLE,                      \* platform flag (__APPLE__)
  sdl_ext_names,              \* what SDL_Vulkan_GetInstanceExtensions reports
  devices,                    \* what vkEnumeratePhysicalDevices reports
  drawable,                   \* what SDL_GL_GetDrawableSize reports
  ext_names,                  \* the extension list handed to vkCreateInstance
  created,                    \* log of the objects created, in order
  destroyed,                  \* log of the objects destroyed, in order
  failed,                     \* runtime calls that returned a non-success code
  evaluated,                  \* per device examined: findQueueFamilies' result
  physical_device_,           \* index into devices, 0 = VK_NULL_HANDLE
  q_indices_,
  swapchain_support_,
  swapchain_ci,               \* what createSwapChain hands to vkCreateSwapchainKHR
  swapchain_images_,
  swapchain_format_,
  swapchain_extent_,
  swapchain_views_

vars == <<pc, abort_stage, cleanup_pc, enable_validation_layers_, APPLE,
          sdl_ext_names, devices, drawable, ext_names, created, destroyed,
          failed, evaluated, physical_device_, q_indices_, swapchain_support_,
          swapchain_ci, swapchain_images_, swapchain_format_,
          swapchain_extent_, swapchain_views_>>

(***************************************************************************)
(* Bounds of the model.                                                    *)
(***************************************************************************)
\* longest list of physical devices the runtime enumerates
MaxDevices == 2
\* longest list of queue families of one device
MaxFamilies == 3
\* most images the runtime hands back for a swapchain
MaxImages == 2
\* longest list of instance extensions the window system asks for
MaxExts == 2
\* width in bits of the model's uint32_t
UintBits == 3
MaxSupportLen == 2

UINT32_MAX == 2^UintBits - 1
INT_MAX == 2^(UintBits - 1) - 1

SeqsUpTo(S, n) == UNION {[1..k -> S] : k \in 0..n}
Range(s) == {s[i] : i \in 1..Len(s)}
Count(s, x) == Cardinality({i \in 1..Len(s) : s[i] = x})
IndexOf(s, x) == IF x \in Range(s) THEN CHOOSE i \in 1..Len(s) : s[i] = x ELSE 0

(***************************************************************************)
(* Program constants.                                                      *)
(***************************************************************************)
device_extensions == <<"VK_KHR_swapchain">>
VK_EXT_DEBUG_UTILS_EXTENSION_NAME == "VK_EXT_debug_utils"
VK_KHR_PORTABILITY_ENUMERATION_EXTENSION_NAME == "VK_KHR_portability_enumeration"
VK_NULL_HANDLE == 0
VK_SUCCESS == "VK_SUCCESS"
VK_ERROR == "VK_ERROR_OUT_OF_HOST_MEMORY"
VkResult == {VK_SUCCESS, VK_ERROR}

\* asserts.h: the statement after ASSERT(c) runs only if c holds; otherwise
\* the process ends there.
ASSERT(c) == c
VKASSERT(result) == ASSERT(result = VK_SUCCESS)

(***************************************************************************)
(* Pure helpers of the class.                                              *)
(***************************************************************************)
NoIndices == [gfx_family |-> -1, present_family |-> -1]

isComplete(indices) == indices.gfx_family # -1 /\ indices.present_family # -1

\* Faulty variant: keeps the first match instead of the last.
RECURSIVE ScanQueueFamilies_FirstMatch(_, _, _)
ScanQueueFamilies_FirstMatch(q_families, i, indices) ==
  IF i >= Len(q_families)
  THEN [indices |-> indices, examined |-> i]
  ELSE LET q_family == q_families[i + 1]
           g == IF q_family.graphics /\ indices.gfx_family = -1
                THEN i ELSE indices.gfx_family
           p == IF q_family.present_support /\ indices.present_family = -1
                THEN i ELSE indices.present_family
           ind == [gfx_family |-> g, present_family |-> p]
       IN  IF isComplete(ind)
           THEN [indices |-> ind, examined |-> i + 1]
           ELSE ScanQueueFamilies_FirstMatch(q_families, i + 1, ind)

\* The loop of findQueueFamilies from counter i on: the indices it returns
\* and the number of families it looked at. Element i of the vector is
\* q_families[i + 1]. A vkGetPhysicalDeviceSurfaceSupportKHR that fails leaves
\* present_support at its initial false: such a family carries
\* present_support = FALSE.
RECURSIVE ScanQueueFamilies(_, _, _)
ScanQueueFamilies(q_families, i, indices) ==
  IF i >= Len(q_families)
  THEN [indices |-> indices, examined |-> i]
  ELSE LET q_family == q_families[i + 1]
           g == IF q_family.graphics THEN i ELSE indices.gfx_family
           p == IF q_family.present_support THEN i ELSE indices.present_family
           ind == [gfx_family |-> g, present_family |-> p]
       IN  IF isComplete(ind)
           THEN [indices |-> ind, examined |-> i + 1]
           ELSE ScanQueueFamilies(q_families, i + 1, ind)

findQueueFamilies(device) == ScanQueueFamilies(device.q_families, 0, NoIndices)

\* std::sort of both name lists, then std::includes: every required name
\* occurs among the available names at least as often as it is required.
checkDeviceExtensionSupport(device) ==
  \A name \in Range(device_extensions) :
     Count(device_extensions, name) <= Count(device.extensions, name)

querySwapChainSupport(device) ==
  [caps |-> device.caps, formats |-> device.formats,
   present_modes |-> device.present_modes]

\* Faulty variant: does not check the device extensions.
isDeviceSuitable_NoExtensionCheck(device, st) ==
  LET scan == findQueueFamilies(device)
      indices == scan.indices
      support_failed ==
        IF \E j \in 1..scan.examined :
              device.q_families[j].support_result # VK_SUCCESS
        THEN {"vkGetPhysicalDeviceSurfaceSupportKHR"} ELSE {}
      seen == [st EXCEPT !.evaluated = Append(@, scan),
                         !.failed = @ \cup support_failed]
  IN  IF ~isComplete(indices) THEN [ok |-> FALSE, st |-> seen]
      ELSE LET swapchain_support == querySwapChainSupport(device)
               caps_failed ==
                 IF device.caps_result # VK_SUCCESS
                 THEN {"vkGetPhysicalDeviceSurfaceCapabilitiesKHR"} ELSE {}
               queried == [seen EXCEPT !.failed = @ \cup caps_failed]
           IN  IF swapchain_support.formats = <<>>
                  \/ swapchain_support.present_modes = <<>>
               THEN [ok |-> FALSE, st |-> queried]
               ELSE [ok |-> TRUE,
                     st |-> [queried EXCEPT
                               !.q_indices_ = indices,
                               !.swapchain_support_ = swapchain_support]]

\* isDeviceSuitable on one device, given the members as they stand: the
\* verdict and the members afterwards. The members are q_indices_ and
\* swapchain_support_, with the two logs the model keeps beside them.
isDeviceSuitable(device, st) ==
  LET scan == findQueueFamilies(device)
      indices == scan.indices
      support_failed ==
        IF \E j \in 1..scan.examined :
              device.q_families[j].support_result # VK_SUCCESS
        THEN {"vkGetPhysicalDeviceSurfaceSupportKHR"} ELSE {}
      seen == [st EXCEPT !.evaluated = Append(@, scan),
                         !.failed = @ \cup support_failed]
  IN  IF ~isComplete(indices) THEN [ok |-> FALSE, st |-> seen]
      ELSE IF ~checkDeviceExtensionSupport(device) THEN [ok |-> FALSE, st |-> seen]
      ELSE LET swapchain_support == querySwapChainSupport(device)
               caps_failed ==
                 IF device.caps_result # VK_SUCCESS
                 THEN {"vkGetPhysicalDeviceSurfaceCapabilitiesKHR"} ELSE {}
               queried == [seen EXCEPT !.failed = @ \cup caps_failed]
           IN  IF swapchain_support.formats = <<>>
                  \/ swapchain_support.present_modes = <<>>
               THEN [ok |-> FALSE, st |-> queried]
               ELSE [ok |-> TRUE,
                     st |-> [queried EXCEPT
                               !.q_indices_ = indices,
                               !.swapchain_support_ = swapchain_support]]

\* Faulty variant: keeps the first suitable device but does not leave the
\* loop, so that later devices are evaluated (and cached) too.
RECURSIVE PickLoop_NoBreak(_, _, _)
PickLoop_NoBreak(devs, k, st) ==
  IF k > Len(devs) THEN st
  ELSE LET r == isDeviceSuitable(devs[k], st)
       IN  IF r.ok /\ r.st.physical_device_ = VK_NULL_HANDLE
           THEN PickLoop_NoBreak(devs, k + 1, [r.st EXCEPT !.physical_device_ = k])
           ELSE PickLoop_NoBreak(devs, k + 1, r.st)

\* The loop of pickPhysicalDevice from the k-th device on.
RECURSIVE PickLoop(_, _, _)
PickLoop(devs, k, st) ==
  IF k > Len(devs) THEN st
  ELSE LET r == isDeviceSuitable(devs[k], st)
       IN  IF r.ok THEN [r.st EXCEPT !.physical_device_ = k]
           ELSE PickLoop(devs, k + 1, r.st)

PreferredFormat ==
  [format |-> "VK_FORMAT_B8G8R8A8_SRGB",
   colorSpace |-> "VK_COLOR_SPACE_SRGB_NONLINEAR_KHR"]

chooseSwapSurfaceFormat(formats) ==
  IF \E i \in 1..Len(formats) : formats[i] = PreferredFormat
  THEN formats[CHOOSE i \in 1..Len(formats) :
                 /\ formats[i] = PreferredFormat
                 /\ \A j \in 1..(i - 1) : formats[j] # PreferredFormat]
  ELSE formats[1]

\* Faulty variant: never looks for the mailbox mode.
chooseSwapPresentMode_AlwaysFifo(present_modes) == "VK_PRESENT_MODE_FIFO_KHR"

chooseSwapPresentMode(present_modes) ==
  IF "VK_PRESENT_MODE_MAILBOX_KHR" \in Range(present_modes)
  THEN "VK_PRESENT_MODE_MAILBOX_KHR"
  ELSE "VK_PRESENT_MODE_FIFO_KHR"

\* static_cast<uint32_t> of an int
ToUint32(x) == x % (2^UintBits)

\* std::clamp(v, lo, hi)
std_clamp(v, lo, hi) == IF v < lo THEN lo ELSE IF hi < v THEN hi ELSE v

\* Faulty variant: takes the drawable size without clamping it.
chooseSwapExtent_Unclamped(caps, size) ==
  IF caps.currentExtent.width # UINT32_MAX
  THEN caps.currentExtent
  ELSE [width |-> ToUint32(size.width), height |-> ToUint32(size.height)]

chooseSwapExtent(caps, size) ==
  IF caps.currentExtent.width # UINT32_MAX
  THEN caps.currentExtent
  ELSE [width |-> std_clamp(ToUint32(size.width), caps.minImageExtent.width,
                            caps.maxImageExtent.width),
        height |-> std_clamp(ToUint32(size.height), caps.minImageExtent.height,
                             caps.maxImageExtent.height)]

\* Faulty variant: clamps to max_image_count even when that is 0.
requestedImageCount_AlwaysClamped(caps) ==
  LET image_count == (caps.minImageCount + 1) % (2^UintBits)
  IN  IF caps.maxImageCount < image_count
      THEN caps.maxImageCount ELSE image_count

\* createSwapChain's image_count, a uint32_t
requestedImageCount(caps) ==
  LET image_count == (caps.minImageCount + 1) % (2^UintBits)
  IN  IF caps.maxImageCount > 0
      THEN (IF caps.maxImageCount < image_count
            THEN caps.maxImageCount ELSE image_count)
      ELSE image_count

\* Faulty variant: asks for debug-utils whether or not diagnostics are enabled.
getRequiredExtensions_AlwaysDebugUtils(window_exts) ==
  LET with_portability ==
        IF APPLE
        THEN Append(window_exts, VK_KHR_PORTABILITY_ENUMERATION_EXTENSION_NAME)
        ELSE window_exts
  IN  Append(with_portability, VK_EXT_DEBUG_UTILS_EXTENSION_NAME)

getRequiredExtensions(window_exts) ==
  LET with_portability ==
        IF APPLE
        THEN Append(window_exts, VK_KHR_PORTABILITY_ENUMERATION_EXTENSION_NAME)
        ELSE window_exts
  IN  IF enable_validation_layers_
      THEN Append(with_portability, VK_EXT_DEBUG_UTILS_EXTENSION_NAME)
      ELSE with_portability

(***************************************************************************)
(* The order of the statements of run(), initVulkan() and cleanup().       *)
(***************************************************************************)
initVulkan ==
  <<"createInstance", "setupDebugMessenger", "createSurface",
    "pickPhysicalDevice", "createLogicalDevice", "createSwapChain",
    "createImageViews">>

run == <<"initWindow">> \o initVulkan \o <<"mainLoop", "cleanup">>

\* if (enable_validation_layers_) { setupDebugMessenger(); }
Skipped(stage) == stage = "setupDebugMessenger" /\ ~enable_validation_layers_

\* The statement that runs once `stage` has returned.
After(stage) ==
  LET i == IndexOf(run, stage)
  IN  IF Skipped(run[i + 1]) THEN run[i + 2] ELSE run[i + 1]

\* Faulty variants: the instance destroyed before the surface; the logical
\* device destroyed before the swapchain.
cleanup_InstanceBeforeSurface ==
  <<"vkDestroyImageView", "vkDestroySwapchainKHR", "vkDestroyDevice",
    "vkDestroyDebugUtilsMessengerEXT", "vkDestroyInstance",
    "vkDestroySurfaceKHR", "SDL_DestroyWindow", "SDL_Quit">>
cleanup_DeviceBeforeSwapchain ==
  <<"vkDestroyImageView", "vkDestroyDevice", "vkDestroySwapchainKHR",
    "vkDestroyDebugUtilsMessengerEXT", "vkDestroySurfaceKHR",
    "vkDestroyInstance", "SDL_DestroyWindow", "SDL_Quit">>

cleanup ==
  <<"vkDestroyImageView", "vkDestroySwapchainKHR", "vkDestroyDevice",
    "vkDestroyDebugUtilsMessengerEXT", "vkDestroySurfaceKHR",
    "vkDestroyInstance", "SDL_DestroyWindow", "SDL_Quit">>

\* Faulty variant: destroys the messenger whether or not it was created.
cleanupRuns_Always(stmt) == TRUE

\* if (enable_validation_layers_) { ... destroy_dbg_fn(...) }
cleanupRuns(stmt) ==
  stmt = "vkDestroyDebugUtilsMessengerEXT" => enable_validation_layers_

Obj(kind) == <<kind, 0>>
View(i) == <<"view", i>>

\* What one statement of cleanup() destroys, in order.
Destroys(stmt) ==
  CASE stmt = "vkDestroyImageView" -> swapchain_views_
    [] stmt = "vkDestroySwapchainKHR" -> <<Obj("swapchain")>>
    [] stmt = "vkDestroyDevice" -> <<Obj("device")>>
    [] stmt = "vkDestroyDebugUtilsMessengerEXT" -> <<Obj("messenger")>>
    [] stmt = "vkDestroySurfaceKHR" -> <<Obj("surface")>>
    [] stmt = "vkDestroyInstance" -> <<Obj("instance")>>
    [] stmt = "SDL_DestroyWindow" -> <<Obj("window")>>
    [] stmt = "SDL_Quit" -> <<Obj("sdl")>>

(***************************************************************************)
(* Actions: one per stage of run(), one per statement of cleanup().        *)
(***************************************************************************)
Abort(stage) == pc' = "aborted" /\ abort_stage' = stage
Continue(stage) == pc' = After(stage) /\ abort_stage' = abort_stage

Env == <<enable_validation_layers_, APPLE, sdl_ext_names, devices, drawable>>
Selection == <<evaluated, physical_device_, q_indices_, swapchain_support_>>
Swapchain == <<swapchain_ci, swapchain_images_, swapchain_format_,
               swapchain_extent_>>

InitWindow ==
  /\ pc = "initWindow"
  /\ \E sdl_init_ok \in BOOLEAN, window \in BOOLEAN :
       IF ~ASSERT(sdl_init_ok)
       THEN Abort("initWindow") /\ created' = created
       ELSE IF ~window
       THEN Abort("initWindow") /\ created' = Append(created, Obj("sdl"))
       ELSE /\ Continue("initWindow")
            /\ created' = created \o <<Obj("sdl"), Obj("window")>>
  /\ UNCHANGED <<cleanup_pc, Env, ext_names, destroyed, failed, Selection,
                 Swapchain, swapchain_views_>>

CreateInstance ==
  /\ pc = "createInstance"
  /\ \E sup_exts \in VkResult, sdl_exts \in BOOLEAN, layers \in VkResult,
        layer_found \in BOOLEAN, create \in VkResult :
       \* printSupportedExtensions
       IF ~VKASSERT(sup_exts)
       THEN /\ Abort("createInstance")
            /\ failed' = failed \cup {"vkEnumerateInstanceExtensionProperties"}
            /\ UNCHANGED <<ext_names, created>>
       \* getRequiredExtensions
       ELSE IF ~ASSERT(sdl_exts)
       THEN /\ Abort("createInstance")
            /\ UNCHANGED <<ext_names, created, failed>>
       \* getValidationLayers
       ELSE IF enable_validation_layers_ /\ ~VKASSERT(layers)
       THEN /\ Abort("createInstance")
            /\ failed' = failed \cup {"vkEnumerateInstanceLayerProperties"}
            /\ ext_names' = getRequiredExtensions(sdl_ext_names)
            /\ created' = created
       ELSE IF enable_validation_layers_ /\ ~ASSERT(layer_found)
       THEN /\ Abort("createInstance")
            /\ ext_names' = getRequiredExtensions(sdl_ext_names)
            /\ UNCHANGED <<created, failed>>
       ELSE IF ~VKASSERT(create)
       THEN /\ Abort("createInstance")
            /\ failed' = failed \cup {"vkCreateInstance"}
            /\ ext_names' = getRequiredExtensions(sdl_ext_names)
            /\ created' = created
       ELSE /\ Continue("createInstance")
            /\ ext_names' = getRequiredExtensions(sdl_ext_names)
            /\ created' = Append(created, Obj("instance"))
            /\ failed' = failed
  /\ UNCHANGED <<cleanup_pc, Env, destroyed, Selection, Swapchain,
                 swapchain_views_>>

SetupDebugMessenger ==
  /\ pc = "setupDebugMessenger"
  /\ \E create_fn \in BOOLEAN, create \in VkResult :
       IF ~ASSERT(create_fn)
       THEN Abort("setupDebugMessenger") /\ UNCHANGED <<created, failed>>
       ELSE IF ~VKASSERT(create)
       THEN /\ Abort("setupDebugMessenger")
            /\ failed' = failed \cup {"vkCreateDebugUtilsMessengerEXT"}
            /\ created' = created
       ELSE /\ Continue("setupDebugMessenger")
            /\ created' = Append(created, Obj("messenger"))
            /\ failed' = failed
  /\ UNCHANGED <<cleanup_pc, Env, ext_names, destroyed, Selection, Swapchain,
                 swapchain_views_>>

CreateSurface ==
  /\ pc = "createSurface"
  /\ \E surface \in BOOLEAN :
       IF ~ASSERT(surface)
       THEN Abort("createSurface") /\ created' = created
       ELSE Continue("createSurface")
            /\ created' = Append(created, Obj("surface"))
  /\ UNCHANGED <<cleanup_pc, Env, ext_names, destroyed, failed, Selection,
                 Swapchain, swapchain_views_>>

\* vkEnumeratePhysicalDevices' result is not looked at; a call that fails
\* leaves device_count at its initial 0.
PickPhysicalDevice ==
  /\ pc = "pickPhysicalDevice"
  /\ \E enumerate \in VkResult :
       LET device_count == IF enumerate = VK_SUCCESS THEN Len(devices) ELSE 0
           reported == failed \cup (IF enumerate = VK_SUCCESS THEN {}
                                    ELSE {"vkEnumeratePhysicalDevices"})
           st == PickLoop(devices, 1,
                          [physical_device_ |-> physical_device_,
                           q_indices_ |-> q_indices_,
                           swapchain_support_ |-> swapchain_support_,
                           evaluated |-> evaluated,
                           failed |-> reported])
       IN  IF ~ASSERT(device_count > 0)
           THEN /\ Abort("pickPhysicalDevice")
                /\ failed' = reported
                /\ UNCHANGED Selection
           ELSE /\ physical_device_' = st.physical_device_
                /\ q_indices_' = st.q_indices_
                /\ swapchain_support_' = st.swapchain_support_
                /\ evaluated' = st.evaluated
                /\ failed' = st.failed
                /\ IF ~ASSERT(st.physical_device_ # VK_NULL_HANDLE)
                   THEN Abort("pickPhysicalDevice")
                   ELSE Continue("pickPhysicalDevice")
  /\ UNCHANGED <<cleanup_pc, Env, ext_names, created, destroyed, Swapchain,
                 swapchain_views_>>

\* vkGetDeviceQueue returns no result code; the queue handles are ASSERTed.
CreateLogicalDevice ==
  /\ pc = "createLogicalDevice"
  /\ \E create \in VkResult, queues \in BOOLEAN :
       IF ~VKASSERT(create)
       THEN /\ Abort("createLogicalDevice")
            /\ failed' = failed \cup {"vkCreateDevice"}
            /\ created' = created
       ELSE IF ~ASSERT(queues)
       THEN /\ Abort("createLogicalDevice")
            /\ created' = Append(created, Obj("device"))
            /\ failed' = failed
       ELSE /\ Continue("createLogicalDevice")
            /\ created' = Append(created, Obj("device"))
            /\ failed' = failed
  /\ UNCHANGED <<cleanup_pc, Env, ext_names, destroyed, Selection, Swapchain,
                 swapchain_views_>>

\* vkGetSwapchainImagesKHR's result is not looked at; a call that fails leaves
\* image_count at the requested count and the image handles null.
CreateSwapChain ==
  /\ pc = "createSwapChain"
  /\ LET format == chooseSwapSurfaceFormat(swapchain_support_.formats)
         present_mode == chooseSwapPresentMode(swapchain_support_.present_modes)
         extent == chooseSwapExtent(swapchain_support_.caps, drawable)
         image_count == requestedImageCount(swapchain_support_.caps)
         concurrent == q_indices_.gfx_family # q_indices_.present_family
         ci == [minImageCount |-> image_count,
                imageFormat |-> format.format,
                imageColorSpace |-> format.colorSpace,
                imageExtent |-> extent,
                presentMode |-> present_mode,
                imageSharingMode |-> IF concurrent
                                     THEN "VK_SHARING_MODE_CONCURRENT"
                                     ELSE "VK_SHARING_MODE_EXCLUSIVE",
                pQueueFamilyIndices |-> IF concurrent
                                        THEN <<q_indices_.gfx_family,
                                               q_indices_.present_family>>
                                        ELSE <<>>]
     IN  /\ swapchain_ci' = ci
         /\ \E create \in VkResult, images \in VkResult, n \in 1..MaxImages :
              IF ~VKASSERT(create)
              THEN /\ Abort("createSwapChain")
                   /\ failed' = failed \cup {"vkCreateSwapchainKHR"}
                   /\ UNCHANGED <<created, swapchain_images_, swapchain_format_,
                                  swapchain_extent_>>
              ELSE /\ Continue("createSwapChain")
                   /\ created' = Append(created, Obj("swapchain"))
                   /\ swapchain_format_' = format.format
                   /\ swapchain_extent_' = extent
                   /\ IF images = VK_SUCCESS
                      THEN /\ swapchain_images_' = [i \in 1..n |-> i]
                           /\ failed' = failed
                      ELSE /\ swapchain_images_' =
                                [i \in 1..image_count |-> VK_NULL_HANDLE]
                           /\ failed' = failed \cup {"vkGetSwapchainImagesKHR"}
  /\ UNCHANGED <<cleanup_pc, Env, ext_names, destroyed, Selection,
                 swapchain_views_>>

\* The loop creates the views in order; the first vkCreateImageView that
\* fails ends the process. No view can be made of a null image.
CreateImageViews ==
  /\ pc = "createImageViews"
  /\ \E n \in 0..Len(swapchain_images_) :
       /\ \A i \in 1..n : swapchain_images_[i] # VK_NULL_HANDLE
       /\ created' = created \o [i \in 1..n |-> View(i)]
       /\ swapchain_views_' =
            [i \in 1..Len(swapchain_images_) |->
               IF i <= n THEN View(i) ELSE View(VK_NULL_HANDLE)]
       /\ IF n < Len(swapchain_images_)
          THEN /\ Abort("createImageViews")
               /\ failed' = failed \cup {"vkCreateImageView"}
          ELSE /\ Continue("createImageViews")
               /\ failed' = failed
  /\ UNCHANGED <<cleanup_pc, Env, ext_names, destroyed, Selection, Swapchain>>

\* The loop polls until a window-close event is seen.
MainLoop ==
  /\ pc = "mainLoop"
  /\ pc' = After("mainLoop")
  /\ cleanup_pc' = 1
  /\ UNCHANGED <<abort_stage, Env, ext_names, created, destroyed, failed,
                 Selection, Swapchain, swapchain_views_>>

\* LOAD_VK_FN(vkDestroyDebugUtilsMessengerEXT): the instance resolves the
\* messenger's destroy function exactly if it resolved its create function,
\* which setupDebugMessenger ASSERTed before it created the messenger.
destroy_dbg_fn == Obj("messenger") \in Range(created)

\* One statement of cleanup().
Cleanup ==
  /\ pc = "cleanup"
  /\ cleanup_pc <= Len(cleanup)
  /\ LET stmt == cleanup[cleanup_pc]
     IN  IF ~cleanupRuns(stmt)
         THEN /\ destroyed' = destroyed
              /\ cleanup_pc' = cleanup_pc + 1
              /\ pc' = IF cleanup_pc = Len(cleanup) THEN "done" ELSE pc
              /\ abort_stage' = abort_stage
         ELSE IF stmt = "vkDestroyDebugUtilsMessengerEXT" /\ ~ASSERT(destroy_dbg_fn)
         THEN /\ Abort("cleanup")
              /\ UNCHANGED <<destroyed, cleanup_pc>>
         ELSE /\ destroyed' = destroyed \o Destroys(stmt)
              /\ cleanup_pc' = cleanup_pc + 1
              /\ pc' = IF cleanup_pc = Len(cleanup) THEN "done" ELSE pc
              /\ abort_stage' = abort_stage
  /\ UNCHANGED <<Env, ext_names, created, failed, Selection, Swapchain,
                 swapchain_views_>>

(***************************************************************************)
(* What the environment can report.                                        *)
(***************************************************************************)
Extent(w, h) == [width |-> w, height |-> h]

Caps(current, min, max, min_count, max_count) ==
  [currentExtent |-> current, minImageExtent |-> min, maxImageExtent |-> max,
   minImageCount |-> min_count, maxImageCount |-> max_count]

\* A queue family: its graphics bit, and what the surface-support query wrote
\* and returned (nothing is written by a query that fails).
QueueFamilies ==
  {f \in [graphics : BOOLEAN, present_support : BOOLEAN, support_result : VkResult] :
     f.support_result # VK_SUCCESS => ~f.present_support}

Family(g, p) == [graphics |-> g, present_support |-> p, support_result |-> VK_SUCCESS]

OtherFormat ==
  [format |-> "VK_FORMAT_R8G8B8A8_UNORM",
   colorSpace |-> "VK_COLOR_SPACE_SRGB_NONLINEAR_KHR"]

CapsA == Caps(Extent(2, 1), Extent(1, 1), Extent(2, 2), 2, 0)
CapsB == Caps(Extent(UINT32_MAX, UINT32_MAX), Extent(1, 1), Extent(2, 2), 2, 2)

Device(fams, exts, caps, caps_result, formats, modes) ==
  [q_families |-> fams, extensions |-> exts, caps |-> caps,
   caps_result |-> caps_result, formats |-> formats, present_modes |-> modes]

GoodDevice ==
  Device(<<Family(TRUE, TRUE)>>, <<"VK_KHR_swapchain">>, CapsA, VK_SUCCESS,
         <<PreferredFormat>>, <<"VK_PRESENT_MODE_FIFO_KHR">>)

\* The devices of the whole-run specification: a suitable one, one whose
\* capability query failed (its caps are whatever the uninitialised struct
\* held), one whose surface-support query failed, one without the swapchain
\* extension.
RunDevices ==
  { GoodDevice,
    [GoodDevice EXCEPT !.caps = CapsB, !.caps_result = VK_ERROR],
    [GoodDevice EXCEPT !.q_families =
        <<[graphics |-> TRUE, present_support |-> FALSE, support_result |-> VK_ERROR]>>],
    [GoodDevice EXCEPT !.extensions = <<"VK_KHR_maintenance1">>] }

\* The devices of the selection specification: each of the three
\* suitability conditions met or not, with two non-empty format lists to
\* tell the snapshots of two devices apart.
PickSupports ==
  { [formats |-> <<>>, present_modes |-> <<"VK_PRESENT_MODE_FIFO_KHR">>],
    [formats |-> <<OtherFormat>>, present_modes |-> <<>>],
    [formats |-> <<OtherFormat>>, present_modes |-> <<"VK_PRESENT_MODE_FIFO_KHR">>],
    [formats |-> <<OtherFormat, PreferredFormat>>,
     present_modes |-> <<"VK_PRESENT_MODE_FIFO_KHR">>] }

PickDevices ==
  { Device(fams, exts, CapsA, VK_SUCCESS, sup.formats, sup.present_modes) :
      fams \in { <<Family(FALSE, TRUE)>>, <<Family(TRUE, TRUE)>>,
                 <<Family(TRUE, FALSE), Family(FALSE, TRUE)>> },
      exts \in { <<"VK_KHR_maintenance1">>,
                 <<"VK_KHR_maintenance1", "VK_KHR_swapchain">> },
      sup \in PickSupports }

\* The extensions a window system asks for: those its surfaces need.
WindowExts == {"VK_KHR_surface", "VK_KHR_xcb_surface", "VK_EXT_metal_surface"}

\* Values of one axis of an extent, and of an int drawable size.
ExtentVals == {0, 1, UINT32_MAX - 1, UINT32_MAX}
DrawableVals == {0, 1, 2, INT_MAX}

\* Capabilities with every current extent and every pair of bounds
\* min <= max per axis (the runtime reports no other).
ExtentCaps ==
  { c \in { Caps(Extent(cw, ch), Extent(lw, lh), Extent(hw, hh), 2, 0) :
              cw \in ExtentVals, ch \in ExtentVals,
              lw \in ExtentVals, lh \in ExtentVals,
              hw \in ExtentVals, hh \in ExtentVals } :
      /\ c.minImageExtent.width <= c.maxImageExtent.width
      /\ c.minImageExtent.height <= c.maxImageExtent.height }

\* Capabilities with every pair of image counts.
CountCaps ==
  { [CapsA EXCEPT !.minImageCount = lo, !.maxImageCount = hi] :
      lo \in 0..UINT32_MAX, hi \in 0..UINT32_MAX }

\* What the two list queries can leave in the vectors of one device: every
\* list of up to MaxSupportLen formats, and of up to MaxSupportLen present
\* modes. isDeviceSuitable looks only at whether a list is empty.
SurfaceFormats == {PreferredFormat, OtherFormat}
PresentModes ==
  {"VK_PRESENT_MODE_IMMEDIATE_KHR", "VK_PRESENT_MODE_MAILBOX_KHR",
   "VK_PRESENT_MODE_FIFO_KHR", "VK_PRESENT_MODE_FIFO_RELAXED_KHR"}
ChooseDevices ==
  { [GoodDevice EXCEPT !.formats = formats, !.present_modes = modes] :
      formats \in SeqsUpTo(SurfaceFormats, MaxSupportLen),
      modes \in SeqsUpTo(PresentModes, MaxSupportLen) }

(***************************************************************************)
(* Initial states.                                                         *)
(***************************************************************************)
\* The members as the constructor leaves them. The handles and the caps
\* member have no initialiser; nothing reads them before they are assigned.
Members ==
  /\ abort_stage = "none"
  /\ cleanup_pc = 0
  /\ destroyed = <<>>
  /\ failed = {}
  /\ swapchain_ci = [minImageCount |-> 0,
                     imageFormat |-> "VK_FORMAT_UNDEFINED",
                     imageColorSpace |-> "VK_COLOR_SPACE_SRGB_NONLINEAR_KHR",
                     imageExtent |-> Extent(0, 0),
                     presentMode |-> "VK_PRESENT_MODE_FIFO_KHR",
                     imageSharingMode |-> "VK_SHARING_MODE_EXCLUSIVE",
                     pQueueFamilyIndices |-> <<>>]
  /\ swapchain_images_ = <<>>
  /\ swapchain_format_ = "VK_FORMAT_UNDEFINED"
  /\ swapchain_extent_ = Extent(0, 0)
  /\ swapchain_views_ = <<>>

Unselected ==
  /\ evaluated = <<>>
  /\ physical_device_ = VK_NULL_HANDLE
  /\ q_indices_ = NoIndices
  /\ swapchain_support_ =
       [caps |-> Caps(Extent(0, 0), Extent(0, 0), Extent(0, 0), 0, 0),
        formats |-> <<>>, present_modes |-> <<>>]

\* The objects alive when a run without failure reaches `stage`.
CreatedBefore(stage) ==
  LET made == [s \in Range(run) |->
                 CASE s = "initWindow" -> <<Obj("sdl"), Obj("window")>>
                   [] s = "createInstance" -> <<Obj("instance")>>
                   [] s = "setupDebugMessenger" ->
                        IF enable_validation_layers_
                        THEN <<Obj("messenger")>> ELSE <<>>
                   [] s = "createSurface" -> <<Obj("surface")>>
                   [] s = "createLogicalDevice" -> <<Obj("device")>>
                   [] OTHER -> <<>>]
      upto[i \in 0..Len(run)] ==
        IF i = 0 THEN <<>> ELSE upto[i - 1] \o made[run[i]]
  IN  upto[IndexOf(run, stage) - 1]

\* run() from its first statement.
Init ==
  /\ pc = "initWindow"
  /\ Members
  /\ Unselected
  /\ enable_validation_layers_ \in BOOLEAN
  /\ APPLE \in BOOLEAN
  /\ sdl_ext_names = <<"VK_KHR_surface", "VK_KHR_xcb_surface">>
  /\ devices \in SeqsUpTo(RunDevices, MaxDevices)
  /\ drawable = Extent(2, 1)
  /\ ext_names = <<>>
  /\ created = <<>>

\* createInstance, for every list the window system can ask for.
InitExt ==
  /\ pc = "createInstance"
  /\ Members
  /\ Unselected
  /\ enable_validation_layers_ \in BOOLEAN
  /\ APPLE \in BOOLEAN
  /\ sdl_ext_names \in SeqsUpTo(WindowExts, MaxExts)
  /\ devices = <<GoodDevice>>
  /\ drawable = Extent(2, 1)
  /\ ext_names = <<>>
  /\ created = CreatedBefore("createInstance")

\* pickPhysicalDevice and the stages that read what it cached.
InitAtPick(devs) ==
  /\ pc = "pickPhysicalDevice"
  /\ Members
  /\ Unselected
  /\ enable_validation_layers_ = FALSE
  /\ APPLE = FALSE
  /\ sdl_ext_names = <<"VK_KHR_surface", "VK_KHR_xcb_surface">>
  /\ devices \in devs
  /\ drawable = Extent(2, 1)
  /\ ext_names = getRequiredExtensions(sdl_ext_names)
  /\ created = CreatedBefore("pickPhysicalDevice")

InitPick == InitAtPick(SeqsUpTo(PickDevices, MaxDevices))

\* findQueueFamilies, for every list of queue families of one device.
InitQF ==
  InitAtPick({ <<[GoodDevice EXCEPT !.q_families = fams]>> :
               fams \in SeqsUpTo(QueueFamilies, MaxFamilies) })

\* createSwapChain once a device with capabilities `caps` was selected.
InitAtSwapChain(caps, sizes) ==
  /\ pc = "createSwapChain"
  /\ Members
  /\ enable_validation_layers_ = FALSE
  /\ APPLE = FALSE
  /\ sdl_ext_names = <<"VK_KHR_surface", "VK_KHR_xcb_surface">>
  /\ devices \in { <<[GoodDevice EXCEPT !.caps = c]>> : c \in caps }
  /\ drawable \in sizes
  /\ ext_names = getRequiredExtensions(sdl_ext_names)
  /\ created = CreatedBefore("createSwapChain")
  /\ evaluated = <<findQueueFamilies(devices[1])>>
  /\ physical_device_ = 1
  /\ q_indices_ = findQueueFamilies(devices[1]).indices
  /\ swapchain_support_ = querySwapChainSupport(devices[1])

InitExtent ==
  InitAtSwapChain(ExtentCaps,
                  { Extent(w, h) : w \in DrawableVals, h \in DrawableVals })

InitImageCount == InitAtSwapChain(CountCaps, { Extent(2, 1) })

\* Selection and swapchain creation, for one device with every pair of
\* format and present-mode lists.
InitChoose == InitAtPick({ <<d>> : d \in ChooseDevices })

(***************************************************************************)
(* Specifications.                                                         *)
(***************************************************************************)
Next ==
  \/ InitWindow
  \/ CreateInstance
  \/ SetupDebugMessenger
  \/ CreateSurface
  \/ PickPhysicalDevice
  \/ CreateLogicalDevice
  \/ CreateSwapChain
  \/ CreateImageViews
  \/ MainLoop
  \/ Cleanup

Spec == Init /\ [][Next]_vars

NextExt == CreateInstance
SpecExt == InitExt /\ [][NextExt]_vars

NextPick ==
  \/ PickPhysicalDevice
  \/ CreateLogicalDevice
  \/ CreateSwapChain
  \/ CreateImageViews
SpecPick == InitPick /\ [][NextPick]_vars

NextQF == PickPhysicalDevice
SpecQF == InitQF /\ [][NextQF]_vars

NextSwapChain == CreateSwapChain
SpecExtent == InitExtent /\ [][NextSwapChain]_vars
SpecImageCount == InitImageCount /\ [][NextSwapChain]_vars

SpecChoose == InitChoose /\ [][NextPick]_vars

(***************************************************************************)
(* Properties.                                                             *)
(***************************************************************************)
Pos(stage) == IndexOf(run, stage)

\* `stage` has run to its end without ending the process.
Returned(stage) ==
  \/ pc = "done"
  \/ pc \in Range(run) /\ Pos(pc) > Pos(stage)
  \/ pc = "aborted" /\ Pos(abort_stage) > Pos(stage)

AbortedIn(stage) == pc = "aborted" /\ abort_stage = stage

Min(a, b) == IF a < b THEN a ELSE b
Max(a, b) == IF a < b THEN b ELSE a

HasGraphicsFamily(d) == \E i \in 1..Len(d.q_families) : d.q_families[i].graphics
HasPresentFamily(d) ==
  \E i \in 1..Len(d.q_families) : d.q_families[i].present_support
HasRequiredExtensions(d) ==
  \A i \in 1..Len(device_extensions) : device_extensions[i] \in Range(d.extensions)
MeetsAllThree(d) ==
  /\ HasGraphicsFamily(d) /\ HasPresentFamily(d)
  /\ HasRequiredExtensions(d)
  /\ d.formats # <<>> /\ d.present_modes # <<>>

FirstMeetingAllThree ==
  IF \E k \in 1..Len(devices) : MeetsAllThree(devices[k])
  THEN CHOOSE k \in 1..Len(devices) :
         /\ MeetsAllThree(devices[k])
         /\ \A j \in 1..(k - 1) : ~MeetsAllThree(devices[j])
  ELSE 0

\* C1: once pickPhysicalDevice has returned, the selected device is the first
\* enumerated device that has a graphics family and a present family, every
\* required extension, and non-empty format and present-mode lists (so a
\* device failing one of them is never the selected one); and when the
\* enumeration succeeded but no device meets all three, the process ends in
\* pickPhysicalDevice with no device selected.
C1_FirstSuitableSelected ==
  /\ Returned("pickPhysicalDevice") =>
       /\ physical_device_ # VK_NULL_HANDLE
       /\ physical_device_ = FirstMeetingAllThree
  /\ (pc # "pickPhysicalDevice" /\ FirstMeetingAllThree = 0) =>
       /\ AbortedIn("pickPhysicalDevice")
       /\ physical_device_ = VK_NULL_HANDLE
  /\ (AbortedIn("pickPhysicalDevice")
      /\ "vkEnumeratePhysicalDevices" \notin failed) =>
       FirstMeetingAllThree = 0

C1_Witness ==
  /\ Returned("pickPhysicalDevice")
  /\ Len(devices) >= 2
  /\ ~HasRequiredExtensions(devices[1])
  /\ HasGraphicsFamily(devices[1]) /\ HasPresentFamily(devices[1])
  /\ devices[1].formats # <<>> /\ devices[1].present_modes # <<>>
  /\ physical_device_ = 2

Kind(o) == o[1]
OwnedKinds == {"instance", "messenger", "surface", "device", "swapchain", "view"}
Made == Range(created)
CreatedBeforeObj(a, b) ==
  /\ a \in Range(created) /\ b \in Range(created)
  /\ IndexOf(created, a) < IndexOf(created, b)
DestroyedBeforeObj(a, b) ==
  /\ a \in Range(destroyed) /\ b \in Range(destroyed)
  /\ IndexOf(destroyed, a) < IndexOf(destroyed, b)

WindowReleasedLast ==
  /\ Len(destroyed) >= 2
  /\ destroyed[Len(destroyed) - 1] = Obj("window")
  /\ destroyed[Len(destroyed)] = Obj("sdl")

\* C2 as stated: when cleanup has finished, any two owned objects of different
\* kinds (the image views taken as one group) were destroyed in the reverse of
\* the order of their creation, and the window and the windowing subsystem
\* were released last.
C2_StrictReverseOfCreation ==
  pc = "done" =>
    /\ \A a \in Made, b \in Made :
         (/\ Kind(a) \in OwnedKinds /\ Kind(b) \in OwnedKinds
          /\ Kind(a) # Kind(b)
          /\ CreatedBeforeObj(a, b)) => DestroyedBeforeObj(b, a)
    /\ WindowReleasedLast

\* C2 as amended: when cleanup has finished, any two owned objects of
\* different kinds other than the messenger and the surface were destroyed in
\* the reverse of the order of their creation; the messenger, created before
\* the surface, was also destroyed before it; the image views were destroyed
\* first, and the window and the windowing subsystem were released last.
C2_ReverseExceptMessengerSurface ==
  pc = "done" =>
    /\ \A a \in Made, b \in Made :
         (/\ Kind(a) \in OwnedKinds /\ Kind(b) \in OwnedKinds
          /\ Kind(a) # Kind(b)
          /\ {Kind(a), Kind(b)} # {"messenger", "surface"}
          /\ CreatedBeforeObj(a, b)) => DestroyedBeforeObj(b, a)
    /\ Obj("messenger") \in Made =>
         /\ CreatedBeforeObj(Obj("messenger"), Obj("surface"))
         /\ DestroyedBeforeObj(Obj("messenger"), Obj("surface"))
    /\ WindowReleasedLast

C2_Witness ==
  /\ pc = "done"
  /\ enable_validation_layers_
  /\ Obj("messenger") \in Range(destroyed)
  /\ Len(swapchain_views_) >= 2

Alive(o) == o \in Range(created) /\ o \notin Range(destroyed)
AnyViewAlive == \E o \in Made : Kind(o) = "view" /\ Alive(o)

\* C3: in every state, the instance is alive while the messenger, the surface
\* or the logical device is; the logical device is alive while the swapchain
\* or an image view is; the surface and the swapchain are alive while an image
\* view is; and the messenger is created after the instance and destroyed
\* before it.
C3_NoParentDestroyedBeforeChild ==
  /\ (Alive(Obj("messenger")) \/ Alive(Obj("surface")) \/ Alive(Obj("device")))
       => Alive(Obj("instance"))
  /\ (Alive(Obj("swapchain")) \/ AnyViewAlive) => Alive(Obj("device"))
  /\ AnyViewAlive => (Alive(Obj("surface")) /\ Alive(Obj("swapchain")))
  /\ Obj("messenger") \in Made =>
       CreatedBeforeObj(Obj("instance"), Obj("messenger"))
  /\ (Obj("messenger") \in Made /\ Obj("instance") \in Range(destroyed)) =>
       DestroyedBeforeObj(Obj("messenger"), Obj("instance"))

C3_Witness ==
  /\ pc = "cleanup"
  /\ enable_validation_layers_
  /\ Obj("device") \in Range(destroyed)
  /\ Obj("messenger") \in Range(destroyed)
  /\ Alive(Obj("surface"))
  /\ Alive(Obj("instance"))

\* C4 as stated: whenever a call of the graphics runtime has returned a
\* non-success result, the process has ended: no later step runs.
C4_EveryResultChecked == failed # {} => pc = "aborted"

\* C5: the list getRequiredExtensions returned to createInstance holds the
\* debug-utils extension exactly once with diagnostics enabled and not at all
\* with diagnostics disabled, and holds every extension the window system
\* asked for.
C5_DebugUtilsOnceIffEnabled ==
  Returned("createInstance") =>
    /\ Count(ext_names, VK_EXT_DEBUG_UTILS_EXTENSION_NAME) =
         (IF enable_validation_layers_ THEN 1 ELSE 0)
    /\ \A i \in 1..Len(sdl_ext_names) : sdl_ext_names[i] \in Range(ext_names)

C5_Witness ==
  /\ Returned("createInstance")
  /\ enable_validation_layers_
  /\ APPLE
  /\ Len(sdl_ext_names) = 2
  /\ Len(ext_names) = 4

Sentinel == Extent(UINT32_MAX, UINT32_MAX)
Clamped(v, lo, hi) == Max(lo, Min(v, hi))

\* C6: the extent createSwapChain uses is, when the current extent is the
\* sentinel, the drawable size clamped per axis into [min, max]; and, when
\* neither axis of the current extent is the sentinel value, that current
\* extent whatever the drawable size.
C6_ExtentClampedOrVerbatim ==
  pc # "createSwapChain" =>
    LET caps == devices[1].caps
    IN  /\ caps.currentExtent = Sentinel =>
             swapchain_ci.imageExtent =
               Extent(Clamped(drawable.width, caps.minImageExtent.width,
                              caps.maxImageExtent.width),
                      Clamped(drawable.height, caps.minImageExtent.height,
                              caps.maxImageExtent.height))
        /\ (/\ caps.currentExtent.width # UINT32_MAX
            /\ caps.currentExtent.height # UINT32_MAX) =>
             swapchain_ci.imageExtent = caps.currentExtent
        /\ Returned("createSwapChain") =>
             swapchain_extent_ = swapchain_ci.imageExtent

C6_Witness ==
  /\ Returned("createSwapChain")
  /\ devices[1].caps.currentExtent = Sentinel
  /\ drawable.width < devices[1].caps.minImageExtent.width
  /\ drawable.height > devices[1].caps.maxImageExtent.height
  /\ swapchain_extent_ = Extent(devices[1].caps.minImageExtent.width,
                                devices[1].caps.maxImageExtent.height)

\* C7 as stated: the image count createSwapChain requests is
\* min_image_count + 1 when max_image_count is 0, and the smaller of
\* min_image_count + 1 and max_image_count otherwise.
C7_MinPlusOneClamped ==
  pc # "createSwapChain" =>
    LET caps == devices[1].caps
    IN  swapchain_ci.minImageCount =
          (IF caps.maxImageCount = 0
           THEN caps.minImageCount + 1
           ELSE Min(caps.minImageCount + 1, caps.maxImageCount))

\* C7 as amended: the same with min_image_count + 1 computed in unsigned
\* arithmetic of the counter's width, so that the largest min_image_count
\* gives 0.
C7_MinPlusOneWrappedClamped ==
  pc # "createSwapChain" =>
    LET caps == devices[1].caps
        wrapped == IF caps.minImageCount = UINT32_MAX
                   THEN 0 ELSE caps.minImageCount + 1
    IN  swapchain_ci.minImageCount =
          (IF caps.maxImageCount = 0
           THEN wrapped
           ELSE Min(wrapped, caps.maxImageCount))

C7_Witness ==
  /\ pc # "createSwapChain"
  /\ devices[1].caps.minImageCount = UINT32_MAX
  /\ devices[1].caps.maxImageCount = 0
  /\ swapchain_ci.minImageCount = 0

Handles == {o \in Made \cup Range(destroyed) : Kind(o) \in OwnedKinds}

\* C8: no owned handle is created twice; none is destroyed twice or without
\* having been created; when cleanup has finished every created handle was
\* destroyed exactly once, the messenger among them exactly if diagnostics
\* are enabled; and the process never ends inside cleanup.
C8_CreatedOnceDestroyedOnce ==
  /\ \A o \in Handles :
       /\ Count(created, o) <= 1
       /\ Count(destroyed, o) <= Count(created, o)
  /\ pc = "done" =>
       /\ \A o \in Handles : Count(created, o) = 1 /\ Count(destroyed, o) = 1
       /\ Obj("messenger") \in Range(destroyed) <=> enable_validation_layers_
  /\ pc = "aborted" => abort_stage # "cleanup"

C8_Witness ==
  /\ pc = "done"
  /\ ~enable_validation_layers_
  /\ Obj("messenger") \notin Range(destroyed)
  /\ Len(swapchain_views_) >= 2
  /\ View(2) \in Range(destroyed)

\* What the claim expects of findQueueFamilies on a list of families, with
\* 0-based indices: k is the first index by which a graphics family and a
\* present family have both been seen, or the last index of the list.
BothSeenBy(fams, j) ==
  /\ \E a \in 0..j : fams[a + 1].graphics
  /\ \E b \in 0..j : fams[b + 1].present_support
StopIndex(fams) ==
  IF \E j \in 0..(Len(fams) - 1) : BothSeenBy(fams, j)
  THEN CHOOSE j \in 0..(Len(fams) - 1) :
         BothSeenBy(fams, j) /\ \A h \in 0..(j - 1) : ~BothSeenBy(fams, h)
  ELSE Len(fams) - 1
LastGraphicsUpTo(fams, k) ==
  IF \E j \in 0..k : fams[j + 1].graphics
  THEN CHOOSE j \in 0..k :
         fams[j + 1].graphics /\ \A h \in (j + 1)..k : ~fams[h + 1].graphics
  ELSE -1
LastPresentUpTo(fams, k) ==
  IF \E j \in 0..k : fams[j + 1].present_support
  THEN CHOOSE j \in 0..k :
         /\ fams[j + 1].present_support
         /\ \A h \in (j + 1)..k : ~fams[h + 1].present_support
  ELSE -1
ExpectedIndices(fams) ==
  [gfx_family |-> LastGraphicsUpTo(fams, StopIndex(fams)),
   present_family |-> LastPresentUpTo(fams, StopIndex(fams))]

\* C9: for each device pickPhysicalDevice examined, findQueueFamilies
\* returned the largest graphics-capable index and the largest
\* presentation-capable index not beyond k (-1 where there is none), and
\* looked at the families 0..k only.
C9_LastMatchUpToStop ==
  \A d \in 1..Len(evaluated) :
     /\ evaluated[d].indices = ExpectedIndices(devices[d].q_families)
     /\ evaluated[d].examined = StopIndex(devices[d].q_families) + 1

C9_Witness ==
  /\ Len(evaluated) = 1
  /\ Len(devices[1].q_families) = 3
  /\ devices[1].q_families[1].graphics
  /\ devices[1].q_families[2].graphics
  /\ evaluated[1].indices = [gfx_family |-> 1, present_family |-> 2]

\* C10: from the return of pickPhysicalDevice on, through logical-device,
\* swapchain and image-view creation, the cached queue-family mapping and the
\* cached swapchain support are those of the selected device.
C10_CacheIsOfSelectedDevice ==
  Returned("pickPhysicalDevice") =>
    /\ physical_device_ \in 1..Len(devices)
    /\ q_indices_ = ExpectedIndices(devices[physical_device_].q_families)
    /\ swapchain_support_ =
         [caps |-> devices[physical_device_].caps,
          formats |-> devices[physical_device_].formats,
          present_modes |-> devices[physical_device_].present_modes]

C10_Witness ==
  /\ Returned("createImageViews")
  /\ Len(devices) = 2
  /\ physical_device_ = 1
  /\ MeetsAllThree(devices[2])
  /\ devices[2].formats # devices[1].formats
  /\ devices[2].q_families # devices[1].q_families
  /\ swapchain_support_.formats = devices[1].formats

\* createSwapChain has filled in the creation info and called
\* vkCreateSwapchainKHR.
SwapchainRequested ==
  Returned("createSwapChain") \/ AbortedIn("createSwapChain")

RequestedFormat ==
  [format |-> swapchain_ci.imageFormat, colorSpace |-> swapchain_ci.imageColorSpace]

\* C11 as stated: once createSwapChain has run after a successful selection,
\* the surface format passed to swapchain creation is an element of the
\* cached format list and the present mode passed is an element of the
\* cached present-mode list.
C11_FormatAndModeAreCached ==
  SwapchainRequested =>
    /\ RequestedFormat \in Range(swapchain_support_.formats)
    /\ swapchain_ci.presentMode \in Range(swapchain_support_.present_modes)

\* C11 as amended: once createSwapChain has run after a successful
\* selection, the surface format passed to swapchain creation is an element
\* of the cached format list (the preferred format when the list holds it,
\* the first element otherwise); the present mode passed is mailbox when the
\* cached list holds mailbox and FIFO otherwise, so that it is an element of
\* the cached list exactly when that list holds mailbox or FIFO.
C11_FormatCachedModeMailboxOrFifo ==
  SwapchainRequested =>
    LET formats == swapchain_support_.formats
        modes == swapchain_support_.present_modes
    IN  /\ formats = devices[physical_device_].formats
        /\ modes = devices[physical_device_].present_modes
        /\ formats # <<>> /\ modes # <<>>
        /\ RequestedFormat \in Range(formats)
        /\ RequestedFormat = IF PreferredFormat \in Range(formats)
                             THEN PreferredFormat ELSE formats[1]
        /\ swapchain_ci.presentMode =
             IF "VK_PRESENT_MODE_MAILBOX_KHR" \in Range(modes)
             THEN "VK_PRESENT_MODE_MAILBOX_KHR"
             ELSE "VK_PRESENT_MODE_FIFO_KHR"
        /\ swapchain_ci.presentMode \in Range(modes) <=>
             \/ "VK_PRESENT_MODE_MAILBOX_KHR" \in Range(modes)
             \/ "VK_PRESENT_MODE_FIFO_KHR" \in Range(modes)

C11_Witness ==
  /\ Returned("createSwapChain")
  /\ swapchain_support_.formats = <<OtherFormat, PreferredFormat>>
  /\ swapchain_support_.present_modes =
       <<"VK_PRESENT_MODE_IMMEDIATE_KHR", "VK_PRESENT_MODE_MAILBOX_KHR">>
  /\ RequestedFormat = PreferredFormat
  /\ swapchain_ci.presentMode = "VK_PRESENT_MODE_MAILBOX_KHR"

====
